---- MODULE Spec2Model ----
(***************************************************************************)
(* Model of src/student_feedback_manager.py: the StudentFeedbackManager    *)
(* record store (load_data, save_data, add_feedback, delete_feedback,      *)
(* search_feedback) with the text analysis add_feedback calls, and the     *)
(* reports (display_all, display_rating_chart, get_sentiment_summary).     *)
(*                                                                         *)
(* Text is a sequence of one-character strings, so that parsing,           *)
(* formatting and ordering are computed character by character.  A cell of *)
(* the data frame is a tagged value: a str, an int, a float (held in       *)
(* hundredths), NaN or None.  The file is the table to_csv writes: a       *)
(* header and rows of text fields; read_csv infers each column's type.  A  *)
(* file the program did not write may also be empty, lack a column, hold   *)
(* any text in a field, or have a line read_csv cannot split.              *)
(***************************************************************************)
EXTENDS Integers, Sequences, FiniteSets, TLC

\* df: self.df; file: the file at file_path; lastOp: the last call and its
\* outcome; shown: the rows the last call printed; report: what the analysis
\* or the report the last call ran produced; arg: the input of the text
\* analysis when it is run on its own
VARIABLES df, file, lastOp, shown, report, arg

vars == <<df, file, lastOp, shown, report, arg>>

(***************************************************************************)
(* Bounds of the model.                                                    *)
(***************************************************************************)
\* add_feedback is offered only while the collection holds fewer rows.
MaxRecords == 2

(***************************************************************************)
(* Cell values.                                                            *)
(***************************************************************************)
StrV(s) == [s |-> s, t |-> "str", n |-> 0]
IntV(n) == [s |-> <<>>, t |-> "int", n |-> n]
\* a float with two decimals, n in hundredths
FloatV(h) == [s |-> <<>>, t |-> "float", n |-> h]
NaN == [s |-> <<>>, t |-> "nan", n |-> 0]
None == [s |-> <<>>, t |-> "none", n |-> 0]

IsNum(v) == v.t \in {"int", "float"}
\* the number a numeric cell holds, in hundredths
Hundredths(v) == IF v.t = "int" THEN 100 * v.n ELSE v.n

\* Python's == on two cells: numbers by value, NaN equal to nothing
PyEq(a, b) ==
    IF IsNum(a) /\ IsNum(b) THEN Hundredths(a) = Hundredths(b)
    ELSE IF a.t = "nan" \/ b.t = "nan" THEN FALSE
    ELSE a = b

\* Python truthiness of an argument: None, "" and 0 are falsy
Truthy(v) ==
    CASE v.t = "none" -> FALSE
      [] v.t = "str" -> v.s # <<>>
      [] v.t = "nan" -> TRUE
      [] OTHER -> v.n # 0

(***************************************************************************)
(* Characters and strings.                                                 *)
(***************************************************************************)
Digits == <<"0", "1", "2", "3", "4", "5", "6", "7", "8", "9">>

DigitChars == {Digits[i] : i \in 1..10}

DigitVal(c) == (CHOOSE i \in 1..10 : Digits[i] = c) - 1

\* code point of the characters a registration number of the model can hold
Ord(c) ==
    CASE c = " " -> 32
      [] c = "-" -> 45
      [] c = "." -> 46
      [] c \in DigitChars -> 48 + DigitVal(c)
      [] c = "A" -> 65
      [] c = "B" -> 66
      [] c = "N" -> 78
      [] c = "P" -> 80
      [] c = "a" -> 97
      [] c = "b" -> 98
      [] c = "n" -> 110

\* str.lower() on one character; A, B, N and P are the capitals of the model
LowerChar(c) ==
    CASE c = "A" -> "a"
      [] c = "B" -> "b"
      [] c = "N" -> "n"
      [] c = "P" -> "p"
      [] OTHER -> c

Lower(s) == [i \in 1..Len(s) |-> LowerChar(s[i])]

\* Python's < on str: by code point, a proper prefix first
RECURSIVE StrLess(_, _)
StrLess(a, b) ==
    IF b = <<>> THEN FALSE
    ELSE IF a = <<>> THEN TRUE
    ELSE IF Ord(Head(a)) < Ord(Head(b)) THEN TRUE
    ELSE IF Ord(Head(a)) > Ord(Head(b)) THEN FALSE
    ELSE StrLess(Tail(a), Tail(b))

\* str.strip() for the one whitespace character of the model
RECURSIVE LStrip(_)
LStrip(s) == IF s # <<>> /\ Head(s) = " " THEN LStrip(Tail(s)) ELSE s

RECURSIVE RStrip(_)
RStrip(s) ==
    IF s # <<>> /\ s[Len(s)] = " " THEN RStrip(SubSeq(s, 1, Len(s) - 1)) ELSE s

Strip(s) == RStrip(LStrip(s))

\* keyword in text
Contains(text, kw) ==
    \E i \in 1..(Len(text) - Len(kw) + 1) : SubSeq(text, i, i + Len(kw) - 1) = kw

\* text.split(sep) for a one-character separator: the pieces, empty ones kept
RECURSIVE SplitOn(_, _)
SplitOn(s, sep) ==
    IF \A i \in 1..Len(s) : s[i] # sep THEN <<s>>
    ELSE LET k == CHOOSE i \in 1..Len(s) :
                      s[i] = sep /\ \A j \in 1..(i - 1) : s[j] # sep
         IN <<SubSeq(s, 1, k - 1)>> \o SplitOn(SubSeq(s, k + 1, Len(s)), sep)

\* len(sentence.split()): the number of maximal runs of non-blank characters
WordCount(s) ==
    Cardinality({i \in 1..Len(s) : s[i] # " " /\ (i = 1 \/ s[i - 1] = " ")})

\* sep.join(parts)
RECURSIVE Join(_, _)
Join(parts, sep) ==
    IF parts = <<>> THEN <<>>
    ELSE IF Len(parts) = 1 THEN parts[1]
    ELSE parts[1] \o sep \o Join(Tail(parts), sep)

\* the digits of a number all of whose characters are digits
RECURSIVE DigitsVal(_)
DigitsVal(s) ==
    IF s = <<>> THEN 0 ELSE 10 * DigitsVal(SubSeq(s, 1, Len(s) - 1)) + DigitVal(s[Len(s)])

AllDigits(s) == s # <<>> /\ \A i \in 1..Len(s) : s[i] \in DigitChars

\* str(n) for an int
RECURSIVE NatStr(_)
NatStr(n) == IF n < 10 THEN <<Digits[n + 1]>> ELSE NatStr(n \div 10) \o <<Digits[(n % 10) + 1]>>

IntStr(n) == IF n < 0 THEN <<"-">> \o NatStr(0 - n) ELSE NatStr(n)

\* repr of a float given in hundredths: 0.7, -0.3, 0.05, 5.0
FloatStr(h) ==
    LET a == IF h < 0 THEN 0 - h ELSE h
        frac == a % 100
        fs == IF frac % 10 = 0 THEN <<Digits[(frac \div 10) + 1]>>
              ELSE <<Digits[(frac \div 10) + 1], Digits[(frac % 10) + 1]>>
    IN (IF h < 0 THEN <<"-">> ELSE <<>>) \o NatStr(a \div 100) \o <<".">> \o fs

(***************************************************************************)
(* Text analysis: extract_emotions, extract_key_phrases, analyze_sentiment.*)
(***************************************************************************)
\* self.emotion_keywords, in the dict's order
EmotionNames ==
    << <<"p", "o", "s", "i", "t", "i", "v", "e">>,
       <<"n", "e", "g", "a", "t", "i", "v", "e">>,
       <<"n", "e", "u", "t", "r", "a", "l">> >>

emotion_keywords ==
    << { <<"e", "x", "c", "e", "l", "l", "e", "n", "t">>,
         <<"g", "r", "e", "a", "t">>,
         <<"g", "o", "o", "d">>,
         <<"a", "m", "a", "z", "i", "n", "g">>,
         <<"w", "o", "n", "d", "e", "r", "f", "u", "l">>,
         <<"h", "e", "l", "p", "f", "u", "l">>,
         <<"l", "o", "v", "e">>,
         <<"e", "n", "j", "o", "y">>,
         <<"b", "e", "s", "t">> },
       { <<"b", "a", "d">>,
         <<"t", "e", "r", "r", "i", "b", "l", "e">>,
         <<"p", "o", "o", "r">>,
         <<"w", "o", "r", "s", "t">>,
         <<"d", "i", "f", "f", "i", "c", "u", "l", "t">>,
         <<"h", "a", "r", "d">>,
         <<"c", "o", "n", "f", "u", "s", "i", "n", "g">>,
         <<"b", "o", "r", "i", "n", "g">>,
         <<"w", "a", "s", "t", "e">> },
       { <<"o", "k", "a", "y">>,
         <<"f", "i", "n", "e">>,
         <<"a", "v", "e", "r", "a", "g", "e">>,
         <<"n", "o", "r", "m", "a", "l">>,
         <<"r", "e", "g", "u", "l", "a", "r">>,
         <<"u", "s", "u", "a", "l">>,
         <<"s", "t", "a", "n", "d", "a", "r", "d">> } >>

\* the set of emotions extract_emotions finds: set(emotions), as indices
extract_emotions(text) ==
    {e \in 1..3 : \E kw \in emotion_keywords[e] : Contains(Lower(text), kw)}

\* the bijections of a set of n elements onto 1..n
Orders(S) ==
    {p \in [1..Cardinality(S) -> S] : \A i, j \in 1..Cardinality(S) : p[i] = p[j] => i = j}

\* list(set(emotions)): the iteration order of a set of str is not fixed
EmotionLists(text) ==
    {[i \in 1..Len(p) |-> EmotionNames[p[i]]] : p \in Orders(extract_emotions(text))}

\* the sentences with at least 3 words, stripped, in order
RECURSIVE KeepPhrases(_)
KeepPhrases(sentences) ==
    IF sentences = <<>> THEN <<>>
    ELSE LET sentence == Strip(Head(sentences))
         IN (IF WordCount(sentence) >= 3 THEN <<sentence>> ELSE <<>>)
                \o KeepPhrases(Tail(sentences))

\* the last three of the kept sentences returned
extract_key_phrases_last(text) ==
    LET key_phrases == KeepPhrases(SplitOn(text, "."))
    IN SubSeq(key_phrases, IF Len(key_phrases) < 3 THEN 1 ELSE Len(key_phrases) - 2,
              Len(key_phrases))

\* extract_key_phrases(text): key_phrases[:3]
extract_key_phrases(text) ==
    LET key_phrases == KeepPhrases(SplitOn(text, "."))
    IN SubSeq(key_phrases, 1, IF Len(key_phrases) < 3 THEN Len(key_phrases) ELSE 3)

\* round(x, 2) of a number given in thousandths, in hundredths; on a tie the
\* binary value of the float decides, so both neighbours are possible
Round2(x) ==
    IF x % 10 = 5 THEN {x \div 10, (x \div 10) + 1} ELSE {(x + 5) \div 10}

\* the lower threshold without its sign
SentimentLabelUnsigned(score) ==
    IF score > 100 THEN <<"P", "o", "s", "i", "t", "i", "v", "e">>
    ELSE IF score < 100 THEN <<"N", "e", "g", "a", "t", "i", "v", "e">>
    ELSE <<"N", "e", "u", "t", "r", "a", "l">>

\* the thresholds taken with the equal sign
SentimentLabelInclusive(score) ==
    IF score >= 100 THEN <<"P", "o", "s", "i", "t", "i", "v", "e">>
    ELSE IF score <= -100 THEN <<"N", "e", "g", "a", "t", "i", "v", "e">>
    ELSE <<"N", "e", "u", "t", "r", "a", "l">>

\* the label of a polarity given in thousandths
SentimentLabel(score) ==
    IF score > 100 THEN <<"P", "o", "s", "i", "t", "i", "v", "e">>
    ELSE IF score < -100 THEN <<"N", "e", "g", "a", "t", "i", "v", "e">>
    ELSE <<"N", "e", "u", "t", "r", "a", "l">>

\* analyze_sentiment(text), given what TextBlob scores the text (thousandths):
\* the set of results it can return
analyze_sentiment(text, score, subjectivity) ==
    {[sentiment |-> SentimentLabel(score),
      score |-> sc,
      subjectivity |-> su,
      emotions |-> em,
      key_phrases |-> extract_key_phrases(text)] :
        sc \in Round2(score), su \in Round2(subjectivity), em \in EmotionLists(text)}

(***************************************************************************)
(* The data frame and the file: to_csv, read_csv.                          *)
(***************************************************************************)
\* self.columns
columns ==
    <<"Registration_No", "Student_Name", "Course", "Feedback", "Sentiment",
      "Sentiment_Score", "Subjectivity", "Emotions", "Key_Phrases", "Rating", "Date">>

ColumnSet == {columns[i] : i \in 1..Len(columns)}

\* the text to_csv writes for a cell: NaN and None as the empty field, a
\* float by its repr.  A field holding the separator is quoted and read back
\* as it was, so the file keeps its fields apart.
FormatCell(v) ==
    CASE v.t = "str" -> v.s
      [] v.t = "int" -> IntStr(v.n)
      [] v.t = "float" -> FloatStr(v.n)
      [] OTHER -> <<>>

\* self.df.to_csv(self.file_path, sep='|', index=False)
to_csv(frame) ==
    [kind |-> "table",
     rows |-> [i \in 1..Len(frame) |-> [c \in ColumnSet |-> FormatCell(frame[i][c])]]]

\* the fields read_csv takes for missing values (those the model can write;
\* "None" is one of them from pandas 2.0 on)
NAValues ==
    { <<>>, <<"n", "a", "n">>, <<"N", "a", "N">>, <<"N", "A">>,
      <<"N", "o", "n", "e">>, <<"n", "u", "l", "l">> }

IsIntTok(tok) ==
    AllDigits(tok) \/ (Len(tok) > 1 /\ tok[1] = "-" /\ AllDigits(Tail(tok)))

IntTokVal(tok) == IF tok[1] = "-" THEN 0 - DigitsVal(Tail(tok)) ELSE DigitsVal(tok)

\* a decimal with at most two places (what the model's floats are written as)
IsFloatTok(tok) ==
    LET body == IF tok # <<>> /\ tok[1] = "-" THEN Tail(tok) ELSE tok
        parts == SplitOn(body, ".")
    IN \/ IsIntTok(tok)
       \/ /\ Len(parts) = 2
          /\ parts[1] \o parts[2] # <<>>
          /\ AllDigits(parts[1] \o parts[2])
          /\ Len(parts[2]) <= 2

\* the value of such a field, in hundredths
FloatTokVal(tok) ==
    LET neg == tok # <<>> /\ tok[1] = "-"
        body == IF neg THEN Tail(tok) ELSE tok
        parts == SplitOn(body, ".") \o << <<>> >>
        frac == parts[2]
        abs == 100 * DigitsVal(parts[1])
                 + (IF Len(frac) = 0 THEN 0
                    ELSE IF Len(frac) = 1 THEN 10 * DigitsVal(frac)
                    ELSE DigitsVal(frac))
    IN IF neg THEN 0 - abs ELSE abs

\* read_csv's type of one column: int64 when every field is an integer,
\* float64 when every field is a number or missing, else object; a missing
\* field is NaN
InferColumn(toks) ==
    LET idx == 1..Len(toks)
        present == {i \in idx : toks[i] \notin NAValues}
    IN IF present = {} THEN [i \in idx |-> NaN]
       ELSE IF \A i \in present : IsIntTok(toks[i])
       THEN [i \in idx |-> IF i \notin present THEN NaN
                           ELSE IF present = idx THEN IntV(IntTokVal(toks[i]))
                           ELSE FloatV(100 * IntTokVal(toks[i]))]
       ELSE IF \A i \in present : IsFloatTok(toks[i])
       THEN [i \in idx |-> IF i \in present THEN FloatV(FloatTokVal(toks[i])) ELSE NaN]
       ELSE [i \in idx |-> IF i \in present THEN StrV(toks[i]) ELSE NaN]

\* the columns the header of the file names
Header(rows) == IF rows = <<>> THEN ColumnSet ELSE DOMAIN rows[1]

\* pd.read_csv(self.file_path, sep='|')
read_csv(rows) ==
    LET col == [c \in Header(rows) |-> InferColumn([i \in 1..Len(rows) |-> rows[i][c]])]
    IN [i \in 1..Len(rows) |-> [c \in Header(rows) |-> col[c][i]]]

\* for col in self.columns: if col not in self.df.columns: self.df[col] = ''
Backfill(frame) ==
    [i \in 1..Len(frame) |->
        [c \in ColumnSet |-> IF c \in DOMAIN frame[i] THEN frame[i][c] ELSE StrV(<<>>)]]

\* str(x)
PyStr(v) ==
    CASE v.t = "str" -> v.s
      [] v.t = "int" -> IntStr(v.n)
      [] v.t = "float" -> FloatStr(v.n)
      [] v.t = "nan" -> <<"n", "a", "n">>
      [] OTHER -> <<"N", "o", "n", "e">>

\* self.df['Registration_No'].astype(str)
astype_str(frame) ==
    [i \in 1..Len(frame) |->
        [frame[i] EXCEPT !.Registration_No = StrV(PyStr(frame[i].Registration_No))]]

\* sort_values forgotten: the rows stay as they were
sort_values_skipped(frame) == {frame}

\* self.df.sort_values('Registration_No'): the orders of the rows that are
\* sorted by the key; rows with equal keys come in any order (quicksort)
sort_values(frame) ==
    {[i \in 1..Len(frame) |-> frame[p[i]]] : p \in
        {q \in Orders(1..Len(frame)) :
            \A i \in 1..(Len(frame) - 1) :
                ~StrLess(frame[q[i + 1]].Registration_No.s, frame[q[i]].Registration_No.s)}}

\* load_data up to the sort: the frame read from the file, or an empty one
\* when there is no file (kind "absent") or read_csv raises EmptyDataError
\* on a file of no bytes (kind "empty")
LoadedFrame(f) ==
    IF f.kind = "table" THEN astype_str(Backfill(read_csv(f.rows))) ELSE <<>>

(***************************************************************************)
(* Inputs of the operations.  Each specification below offers the          *)
(* operations a set of arguments; the sets are small and differ in what    *)
(* they vary.                                                              *)
(***************************************************************************)
\* registration numbers: "", "007", "10", "2", "7"
RegArgs ==
    {StrV(<<>>), StrV(<<"0", "0", "7">>), StrV(<<"1", "0">>), StrV(<<"2">>), StrV(<<"7">>)}

\* fewer of them: "10", "2", "7"
FewRegArgs == {StrV(<<"1", "0">>), StrV(<<"2">>), StrV(<<"7">>)}

\* student names: "a", "A", "b"
NameArgs == {StrV(<<"a">>), StrV(<<"A">>), StrV(<<"b">>)}

OneNameArg == {StrV(<<"a">>)}

CourseArgs == {StrV(<<"c">>)}

\* feedback texts: "" and "a bad b"
FeedbackArgs == {StrV(<<>>), StrV(<<"a", " ", "b", "a", "d", " ", "b">>)}

OneFeedbackArg == {StrV(<<"a", " ", "b", "a", "d", " ", "b">>)}

\* ratings: "1", "10", "0", "11", "a", " 5 ", "5.0" and a missing one
RatingArgs ==
    {StrV(<<"1">>), StrV(<<"1", "0">>), StrV(<<"0">>), StrV(<<"1", "1">>), StrV(<<"a">>),
     StrV(<<" ", "5", " ">>), StrV(<<"5", ".", "0">>), None}

\* fewer of them: "10", "0", "a" and a missing one
FewRatingArgs == {StrV(<<"1", "0">>), StrV(<<"0">>), StrV(<<"a">>), None}

\* A file found at file_path when the program starts.  Its rows are numbered
\* 1, 2, ... as registration numbers; the Rating and Sentiment_Score fields
\* are given, the others are what add_feedback writes for "a bad b".
LegacyRow(i, rating, score) ==
    [Registration_No |-> NatStr(i),
     Student_Name |-> <<"a">>,
     Course |-> <<"c">>,
     Feedback |-> <<"a", " ", "b", "a", "d", " ", "b">>,
     Sentiment |-> <<"N", "e", "g", "a", "t", "i", "v", "e">>,
     Sentiment_Score |-> score,
     Subjectivity |-> <<"0", ".", "6", "7">>,
     Emotions |-> <<"n", "e", "g", "a", "t", "i", "v", "e">>,
     Key_Phrases |-> <<"a", " ", "b", "a", "d", " ", "b">>,
     Rating |-> rating,
     Date |-> <<"2", "0", "2", "4", "-", "0", "1", "-", "0", "1", " ",
                "1", "0", ":", "0", "0", ":", "0", "0">>]

\* the table whose rows hold these <<rating, score>> fields
LegacyTable(fields) ==
    [kind |-> "table",
     rows |-> [i \in 1..Len(fields) |-> LegacyRow(i, fields[i][1], fields[i][2])]]

\* Rating fields: "9", "7", "2", "11", "0", "8.5", "abc", ""
RatingFields ==
    {<<"9">>, <<"7">>, <<"2">>, <<"1", "1">>, <<"0">>, <<"8", ".", "5">>,
     <<"a", "b", "c">>, <<>>}

\* <<rating, score>> fields of a row: every rating with the score -0.7, and
\* the rating 9 with the score "n/a"
RowFields ==
    {<<r, <<"-", "0", ".", "7">> >> : r \in RatingFields}
        \cup {<< <<"9">>, <<"n", "/", "a">> >>}

\* the files hold at most this many rows (but for ExampleFile)
MaxFileRows == 2

\* the ratings 9, 7, 5, 2, 10
ExampleRatings == << <<"9">>, <<"7">>, <<"5">>, <<"2">>, <<"1", "0">> >>

ExampleFile ==
    LegacyTable([i \in 1..Len(ExampleRatings) |->
                    <<ExampleRatings[i], <<"-", "0", ".", "7">> >>])

\* a table of one row without the Rating column
NoRatingFile ==
    [kind |-> "table",
     rows |-> << [c \in ColumnSet \ {"Rating"} |->
                    LegacyRow(1, <<>>, <<"-", "0", ".", "7">>)[c]] >>]

\* no file, a file of no bytes, a file with a line read_csv cannot split,
\* and tables: of the header alone, of up to MaxFileRows rows, and the two above
LegacyFiles ==
    {[kind |-> k, rows |-> <<>>] : k \in {"absent", "empty", "corrupt"}}
        \cup {LegacyTable(fields) :
                 fields \in UNION {[1..n -> RowFields] : n \in 0..MaxFileRows}}
        \cup {ExampleFile, NoRatingFile}

\* what TextBlob scores the feedback texts of the model, in thousandths
\* (polarity, subjectivity): nothing for "", the lexicon's entry of "bad"
TextBlobSentiment(text) ==
    IF text = <<>> THEN [polarity |-> 0, subjectivity |-> 0]
    ELSE [polarity |-> -700, subjectivity |-> 667]

\* datetime.now().strftime('%Y-%m-%d %H:%M:%S')
Timestamps ==
    {<<"2", "0", "2", "4", "-", "0", "1", "-", "0", "1", " ",
       "1", "0", ":", "0", "0", ":", "0", "0">>}

(***************************************************************************)
(* The operations.                                                         *)
(***************************************************************************)
\* what the last call was, with the arguments the properties speak of, what it
\* returned (or the exception it raised) and the message it printed
Call(op, reg, name, rating, res, msg) ==
    [op |-> op, reg |-> reg, name |-> name, rating |-> rating, res |-> res, msg |-> msg]

\* what a call that ran no analysis and no report leaves in report
NoReport == [kind |-> "none"]

\* the result of analyze_sentiment a call obtained
Analysis(analysis) == [kind |-> "analysis", analysis |-> analysis]

\* __init__ with no file at file_path: load_data leaves an empty frame
Init ==
    /\ df = <<>>
    /\ file = [kind |-> "absent", rows |-> <<>>]
    /\ lastOp = Call("init", None, None, None, "None", "")
    /\ shown = <<>>
    /\ report = NoReport
    /\ arg = None

\* load_data (a restart of the program reads the file back).  On a file
\* with a line of more fields than the header (kind "corrupt") read_csv
\* raises ParserError, which except pd.errors.EmptyDataError lets through.
load_data ==
    /\ IF file.kind = "corrupt"
       THEN /\ lastOp' = Call("load", None, None, None, "ParserError", "")
            /\ UNCHANGED df
       ELSE /\ \E d \in sort_values(LoadedFrame(file)) : df' = d
            /\ lastOp' = Call("load", None, None, None, "None", "")
    /\ shown' = <<>>
    /\ report' = NoReport
    /\ UNCHANGED <<file, arg>>

\* save_data
save_data ==
    /\ file' = to_csv(df)
    /\ lastOp' = Call("save", None, None, None, "None", "")
    /\ shown' = <<>>
    /\ report' = NoReport
    /\ UNCHANGED <<df, arg>>

\* int(rating): the value, or the exception int raises
PyInt(v) ==
    CASE v.t = "str" ->
            LET s == Strip(v.s)
                body == IF s # <<>> /\ s[1] \in {"+", "-"} THEN Tail(s) ELSE s
            IN IF AllDigits(body)
               THEN [exc |-> "", n |-> IF s[1] = "-" THEN 0 - DigitsVal(body) ELSE DigitsVal(body)]
               ELSE [exc |-> "ValueError", n |-> 0]
      [] v.t = "int" -> [exc |-> "", n |-> v.n]
      [] v.t = "float" ->
            [exc |-> "", n |-> IF v.n < 0 THEN 0 - ((0 - v.n) \div 100) ELSE v.n \div 100]
      [] v.t = "nan" -> [exc |-> "ValueError", n |-> 0]
      [] OTHER -> [exc |-> "TypeError", n |-> 0]

\* reg_no in self.df['Registration_No'].values
RegInFrame(reg, frame) ==
    \E i \in 1..Len(frame) : PyEq(frame[i].Registration_No, reg)

\* the duplicate check made on the wrong column
IsDuplicateByName(reg, frame) ==
    frame # <<>> /\ \E i \in 1..Len(frame) : PyEq(frame[i].Student_Name, reg)

\* the duplicate check of add_feedback
IsDuplicate(reg, frame) == frame # <<>> /\ RegInFrame(reg, frame)

\* the range check with the upper limit left out of the range
RatingOutOfRangeExclusive(rating) == rating < 1 \/ rating >= 10

\* the range check of add_feedback on the parsed rating
RatingOutOfRange(rating) == rating < 1 \/ rating > 10

\* new_entry of add_feedback
NewEntry(reg, name, course, feedback, analysis, rating, now) ==
    [Registration_No |-> reg,
     Student_Name |-> StrV(PyStr(name)),
     Course |-> StrV(PyStr(course)),
     Feedback |-> StrV(PyStr(feedback)),
     Sentiment |-> StrV(analysis.sentiment),
     Sentiment_Score |-> FloatV(analysis.score),
     Subjectivity |-> FloatV(analysis.subjectivity),
     Emotions |-> StrV(IF analysis.emotions # <<>>
                       THEN Join(analysis.emotions, <<",", " ">>)
                       ELSE <<"N", "o", "n", "e">>),
     Key_Phrases |-> StrV(IF analysis.key_phrases # <<>>
                          THEN Join(analysis.key_phrases, <<" ", "|", " ">>)
                          ELSE <<"N", "o", "n", "e">>),
     Rating |-> IntV(rating),
     Date |-> StrV(now)]

\* a rejected add that saves the frame all the same
RejectAddSaving(reg_no, rating, msg) ==
    /\ lastOp' = Call("add", reg_no, None, rating, "False", msg)
    /\ shown' = <<>>
    /\ report' = NoReport
    /\ file' = to_csv(df)
    /\ UNCHANGED <<df, arg>>

\* print(error); return False: a rejected add changes nothing
RejectAdd(reg_no, rating, msg) ==
    /\ lastOp' = Call("add", reg_no, None, rating, "False", msg)
    /\ shown' = <<>>
    /\ report' = NoReport
    /\ UNCHANGED <<df, file, arg>>

\* the rating validated before the duplicate check
add_feedback_rating_first(reg_no, name, course, feedback, rating, score, subjectivity, now) ==
    LET reg == StrV(PyStr(reg_no))
        parsed == PyInt(rating)
    IN IF parsed.exc = "TypeError"
       THEN /\ lastOp' = Call("add", reg_no, None, rating, "TypeError", "")
            /\ shown' = <<>>
            /\ report' = NoReport
            /\ UNCHANGED <<df, file, arg>>
       ELSE IF parsed.exc = "ValueError"
       THEN RejectAdd(reg_no, rating, "number")
       ELSE IF RatingOutOfRange(parsed.n)
       THEN RejectAdd(reg_no, rating, "range")
       ELSE IF IsDuplicate(reg, df)
       THEN RejectAdd(reg_no, rating, "exists")
       ELSE /\ Len(df) < MaxRecords
            /\ \E analysis \in analyze_sentiment(feedback.s, score, subjectivity) :
                 LET new_entry == NewEntry(reg, name, course, feedback, analysis, parsed.n, now)
                 IN /\ \E d \in sort_values(Append(df, new_entry)) :
                          /\ df' = d
                          /\ file' = to_csv(d)
                    /\ shown' = <<new_entry>>
                    /\ report' = Analysis(analysis)
            /\ lastOp' = Call("add", reg_no, None, rating, "True", "added")
            /\ UNCHANGED arg

\* add_feedback(reg_no, name, course, feedback, rating); score and
\* subjectivity are what TextBlob scores the feedback, now is the clock
add_feedback(reg_no, name, course, feedback, rating, score, subjectivity, now) ==
    LET reg == StrV(PyStr(reg_no))
        parsed == PyInt(rating)
    IN IF IsDuplicate(reg, df)
       THEN RejectAdd(reg_no, rating, "exists")
       ELSE IF parsed.exc = "TypeError"
       THEN \* int(rating) raises what except ValueError does not catch
            /\ lastOp' = Call("add", reg_no, None, rating, "TypeError", "")
            /\ shown' = <<>>
            /\ report' = NoReport
            /\ UNCHANGED <<df, file, arg>>
       ELSE IF parsed.exc = "ValueError"
       THEN RejectAdd(reg_no, rating, "number")
       ELSE IF RatingOutOfRange(parsed.n)
       THEN RejectAdd(reg_no, rating, "range")
       ELSE /\ Len(df) < MaxRecords
            /\ \E analysis \in analyze_sentiment(feedback.s, score, subjectivity) :
                 LET new_entry == NewEntry(reg, name, course, feedback, analysis, parsed.n, now)
                 IN /\ \E d \in sort_values(Append(df, new_entry)) :
                          /\ df' = d
                          /\ file' = to_csv(d)
                    /\ shown' = <<new_entry>>
                    /\ report' = Analysis(analysis)
            /\ lastOp' = Call("add", reg_no, None, rating, "True", "added")
            /\ UNCHANGED arg

\* add_feedback over sets of arguments
AddOver(Regs, Names, Feedbacks, Ratings) ==
    \E reg_no \in Regs, name \in Names, course \in CourseArgs,
       feedback \in Feedbacks, rating \in Ratings, now \in Timestamps :
        add_feedback(reg_no, name, course, feedback, rating,
                     TextBlobSentiment(feedback.s).polarity,
                     TextBlobSentiment(feedback.s).subjectivity, now)

\* self.df['Student_Name'].str: only a column of dtype object has it, which
\* a column is when it holds a str
HasStrAccessor(frame, c) == \E i \in 1..Len(frame) : frame[i][c].t = "str"

\* the match without lower()
NameMatchesCase(cell, name) == cell.t = "str" /\ cell.s = PyStr(name)

\* x.lower() == name.lower() on a cell of .str.lower(): NaN where the cell
\* is no str, and NaN equals nothing
NameMatches(cell, name) == cell.t = "str" /\ Lower(cell.s) = Lower(PyStr(name))

\* the rows self.df[mask] keeps
RECURSIVE Filter(_, _)
Filter(frame, keep) ==
    IF frame = <<>> THEN <<>>
    ELSE (IF 1 \in keep THEN <<Head(frame)>> ELSE <<>>)
            \o Filter(Tail(frame), {i - 1 : i \in keep \ {1}})

\* the kept rows saved whether or not a row was removed
KeepRowsSaving(reg_no, name, kept) ==
    /\ df' = kept
    /\ file' = to_csv(kept)
    /\ IF Len(kept) < Len(df)
       THEN lastOp' = Call("delete", reg_no, name, None, "True", "deleted")
       ELSE lastOp' = Call("delete", reg_no, name, None, "False", "not_found")

\* the end of both branches of delete_feedback: the frame is the kept rows,
\* saved and reported deleted only if it got shorter
KeepRows(reg_no, name, kept) ==
    /\ df' = kept
    /\ IF Len(kept) < Len(df)
       THEN /\ file' = to_csv(kept)
            /\ lastOp' = Call("delete", reg_no, name, None, "True", "deleted")
       ELSE /\ lastOp' = Call("delete", reg_no, name, None, "False", "not_found")
            /\ UNCHANGED file

\* a delete that found nothing to do and saves the frame all the same
RejectDeleteSaving(reg_no, name, msg) ==
    /\ lastOp' = Call("delete", reg_no, name, None, "False", msg)
    /\ file' = to_csv(df)
    /\ UNCHANGED df

\* print(message); return False: on an empty frame and with no selector
\* delete_feedback changes nothing
RejectDelete(reg_no, name, msg) ==
    /\ lastOp' = Call("delete", reg_no, name, None, "False", msg)
    /\ UNCHANGED <<df, file>>

\* delete_feedback(reg_no=None, name=None): the empty frame is looked at
\* before the selectors
delete_feedback(reg_no, name) ==
    /\ shown' = <<>>
    /\ report' = NoReport
    /\ UNCHANGED arg
    /\ IF df = <<>>
       THEN RejectDelete(reg_no, name, "empty")
       ELSE IF Truthy(reg_no)
       THEN LET reg == StrV(PyStr(reg_no))
            IN KeepRows(reg_no, name,
                        Filter(df, {i \in 1..Len(df) : ~PyEq(df[i].Registration_No, reg)}))
       ELSE IF Truthy(name)
       THEN IF ~HasStrAccessor(df, "Student_Name")
            THEN /\ lastOp' = Call("delete", reg_no, name, None, "AttributeError", "")
                 /\ UNCHANGED <<df, file>>
            ELSE KeepRows(reg_no, name,
                          Filter(df, {i \in 1..Len(df) :
                                        ~NameMatches(df[i].Student_Name, name)}))
       ELSE RejectDelete(reg_no, name, "provide")

\* the selectors main passes: one of the two, and the call with neither
Selectors(Regs, Names) ==
    {<<r, None>> : r \in Regs} \cup {<<None, n>> : n \in Names} \cup {<<None, None>>}

DeleteOver(Regs, Names) ==
    \E sel \in Selectors(Regs, Names) : delete_feedback(sel[1], sel[2])

\* search_feedback(reg_no=None, name=None); shown is the result it prints
search_feedback(reg_no, name) ==
    /\ UNCHANGED <<df, file, arg>>
    /\ report' = NoReport
    /\ IF df = <<>>
       THEN /\ lastOp' = Call("search", reg_no, name, None, "None", "empty")
            /\ shown' = <<>>
       ELSE IF Truthy(reg_no)
       THEN LET reg == StrV(PyStr(reg_no))
                result == Filter(df, {i \in 1..Len(df) : PyEq(df[i].Registration_No, reg)})
            IN /\ shown' = result
               /\ lastOp' = Call("search", reg_no, name, None, "None",
                                 IF result = <<>> THEN "no_match" ELSE "results")
       ELSE IF Truthy(name)
       THEN IF ~HasStrAccessor(df, "Student_Name")
            THEN /\ lastOp' = Call("search", reg_no, name, None, "AttributeError", "")
                 /\ shown' = <<>>
            ELSE LET result == Filter(df, {i \in 1..Len(df) :
                                              NameMatches(df[i].Student_Name, name)})
                 IN /\ shown' = result
                    /\ lastOp' = Call("search", reg_no, name, None, "None",
                                      IF result = <<>> THEN "no_match" ELSE "results")
       ELSE /\ lastOp' = Call("search", reg_no, name, None, "None", "provide")
            /\ shown' = <<>>

SearchOver(Regs, Names) ==
    \E sel \in Selectors(Regs, Names) : search_feedback(sel[1], sel[2])

(***************************************************************************)
(* The reports.                                                            *)
(***************************************************************************)
\* display_all: shown is the table it prints, of a copy of the frame
display_all ==
    /\ lastOp' = Call("display_all", None, None, None, "None",
                      IF df = <<>> THEN "empty" ELSE "results")
    /\ shown' = df
    /\ report' = NoReport
    /\ UNCHANGED <<df, file, arg>>

\* pd.to_numeric(x, errors='coerce') of one value: the number a text
\* denotes, NaN for any other text and for a missing value
ToNumber(v) ==
    CASE v.t = "str" ->
            IF IsIntTok(v.s) THEN IntV(IntTokVal(v.s))
            ELSE IF IsFloatTok(v.s) THEN FloatV(FloatTokVal(v.s))
            ELSE NaN
      [] v.t \in {"int", "float"} -> v
      [] OTHER -> NaN

\* the column of the values vals: int64 when every value is an integer,
\* else float64
WithColumn(frame, c, vals) ==
    [i \in 1..Len(frame) |->
        [frame[i] EXCEPT ![c] =
            IF vals[i].t = "int" /\ \E j \in 1..Len(frame) : vals[j].t # "int"
            THEN FloatV(100 * vals[i].n)
            ELSE vals[i]]]

\* self.df[c] = pd.to_numeric(self.df[c], errors='coerce')
to_numeric(frame, c) ==
    WithColumn(frame, c, [i \in 1..Len(frame) |-> ToNumber(frame[i][c])])

\* rating_categories, in the order of the dict
rating_categories ==
    <<[category |-> "Excellent (9-10)", min_rating |-> 9, max_rating |-> 10],
      [category |-> "Very Good (7-8)", min_rating |-> 7, max_rating |-> 8],
      [category |-> "Good (5-6)", min_rating |-> 5, max_rating |-> 6],
      [category |-> "Fair (3-4)", min_rating |-> 3, max_rating |-> 4],
      [category |-> "Poor (1-2)", min_rating |-> 1, max_rating |-> 2]>>

\* the upper bound of a category left out
InCategoryHalfOpen(v, k) ==
    /\ Hundredths(v) >= 100 * rating_categories[k].min_rating
    /\ Hundredths(v) < 100 * rating_categories[k].max_rating

\* (Rating >= min_rating) & (Rating <= max_rating)
InCategory(v, k) ==
    /\ Hundredths(v) >= 100 * rating_categories[k].min_rating
    /\ Hundredths(v) <= 100 * rating_categories[k].max_rating

\* self.df.dropna(subset=['Rating'])
ValidRatings(numeric) ==
    Filter(numeric, {i \in 1..Len(numeric) : IsNum(numeric[i].Rating)})

\* len(valid_ratings[...]) of each category
CategoryCount(valid_ratings) ==
    [k \in 1..Len(rating_categories) |->
        Cardinality({i \in 1..Len(valid_ratings) : InCategory(valid_ratings[i].Rating, k)})]

\* category_counts: the categories with a count above 0
CategoryCounts(count) ==
    [c \in {rating_categories[k].category :
                k \in {j \in 1..Len(rating_categories) : count[j] > 0}} |->
        count[CHOOSE k \in 1..Len(rating_categories) : rating_categories[k].category = c]]

\* valid_ratings['Rating'].max() and .min()
Highest(valid_ratings) ==
    valid_ratings[CHOOSE i \in 1..Len(valid_ratings) : \A j \in 1..Len(valid_ratings) :
        Hundredths(valid_ratings[j].Rating) <= Hundredths(valid_ratings[i].Rating)].Rating

Lowest(valid_ratings) ==
    valid_ratings[CHOOSE i \in 1..Len(valid_ratings) : \A j \in 1..Len(valid_ratings) :
        Hundredths(valid_ratings[j].Rating) >= Hundredths(valid_ratings[i].Rating)].Rating

\* what the chart shows and the statistics print
ChartReport(category_counts, stats) ==
    [kind |-> "chart", category_counts |-> category_counts, stats |-> stats]

\* the end of the try block: the message and the report.  The statistics
\* (highest, lowest and total of the valid ratings) are printed only with a
\* chart.
ChartOf(valid_ratings, category_counts) ==
    IF valid_ratings = <<>>
    THEN [msg |-> "no_valid", report |-> NoReport]
    ELSE IF DOMAIN category_counts = {}
    THEN [msg |-> "no_category", report |-> NoReport]
    ELSE [msg |-> "chart",
          report |-> ChartReport(category_counts,
                                 [highest |-> Highest(valid_ratings),
                                  lowest |-> Lowest(valid_ratings),
                                  total |-> Len(valid_ratings)])]

\* the body of display_rating_chart on a frame whose Rating is numeric
rating_chart(numeric) ==
    ChartOf(ValidRatings(numeric), CategoryCounts(CategoryCount(ValidRatings(numeric))))

\* the try block of display_rating_chart, called by op: Rating is made
\* numeric in self.df and the message printed
Charted(op, numeric) ==
    /\ df' = numeric
    /\ lastOp' = Call(op, None, None, None, "None", rating_chart(numeric).msg)

\* display_rating_chart on a frame that is not empty
DisplayChart(numeric) ==
    /\ Charted("display_rating_chart", numeric)
    /\ report' = rating_chart(numeric).report

\* display_rating_chart
display_rating_chart ==
    /\ shown' = <<>>
    /\ UNCHANGED <<file, arg>>
    /\ IF df = <<>>
       THEN /\ lastOp' = Call("display_rating_chart", None, None, None, "None", "empty")
            /\ report' = NoReport
            /\ UNCHANGED df
       ELSE DisplayChart(to_numeric(df, "Rating"))

\* ['Positive', 'Neutral', 'Negative']
SentimentLabels == {SentimentLabel(1000), SentimentLabel(0), SentimentLabel(-1000)}

\* sentiment_counts and total_entries of the frame, with the chart's report
Summary(scored, chart) ==
    [kind |-> "summary",
     sentiment_counts |->
        [l \in SentimentLabels |->
            Cardinality({i \in 1..Len(scored) : scored[i].Sentiment = StrV(l)})],
     total_entries |-> Len(scored),
     chart |-> chart.report]

\* the summary printed, then self.display_rating_chart()
SummaryAndChart(scored, numeric) ==
    /\ Charted("get_sentiment_summary", numeric)
    /\ report' = Summary(scored, rating_chart(numeric))

\* get_sentiment_summary after the two to_numeric: emotions.split raises
\* AttributeError on an Emotions value that is neither text nor missing;
\* otherwise the summary is printed and display_rating_chart called
Summarised(scored) ==
    IF \E i \in 1..Len(scored) : scored[i].Emotions.t \in {"int", "float"}
    THEN /\ df' = scored
         /\ lastOp' = Call("get_sentiment_summary", None, None, None, "AttributeError", "")
         /\ report' = NoReport
    ELSE SummaryAndChart(scored, to_numeric(scored, "Rating"))

\* get_sentiment_summary
get_sentiment_summary ==
    /\ shown' = <<>>
    /\ UNCHANGED <<file, arg>>
    /\ IF df = <<>>
       THEN /\ lastOp' = Call("get_sentiment_summary", None, None, None, "None", "empty")
            /\ report' = NoReport
            /\ UNCHANGED df
       ELSE Summarised(to_numeric(to_numeric(df, "Sentiment_Score"), "Subjectivity"))

(***************************************************************************)
(* Spec: the store over all registration numbers and both feedback texts.  *)
(***************************************************************************)
AddFeedback == AddOver(RegArgs, OneNameArg, FeedbackArgs, FewRatingArgs)

DeleteFeedback == DeleteOver(RegArgs, OneNameArg)

SearchFeedback == SearchOver(RegArgs, OneNameArg)

Next ==
    \/ AddFeedback
    \/ DeleteFeedback
    \/ SearchFeedback
    \/ load_data
    \/ save_data

Spec == Init /\ [][Next]_vars

(***************************************************************************)
(* SpecRating: add over all ratings, with few registration numbers.        *)
(***************************************************************************)
AddRated == AddOver(FewRegArgs, OneNameArg, OneFeedbackArg, RatingArgs)

DeleteRated == DeleteOver(FewRegArgs, {})

NextRating ==
    \/ AddRated
    \/ DeleteRated
    \/ load_data

SpecRating == Init /\ [][NextRating]_vars

(***************************************************************************)
(* SpecNames: add, delete and search over all names.                       *)
(***************************************************************************)
AddNamed == AddOver(FewRegArgs, NameArgs, OneFeedbackArg, {StrV(<<"1", "0">>)})

DeleteNamed == DeleteOver(FewRegArgs, NameArgs)

SearchNamed == SearchOver(FewRegArgs, NameArgs)

NextNames ==
    \/ AddNamed
    \/ DeleteNamed
    \/ SearchNamed
    \/ load_data

SpecNames == Init /\ [][NextNames]_vars

(***************************************************************************)
(* SpecFiles: the program started on a file it finds at file_path; the     *)
(* first call is the load_data of __init__, and the operations are those   *)
(* of the manager __init__ returned.                                       *)
(***************************************************************************)
InitFiles ==
    /\ df = <<>>
    /\ file \in LegacyFiles
    /\ lastOp = Call("start", None, None, None, "None", "")
    /\ shown = <<>>
    /\ report = NoReport
    /\ arg = None

\* main has a manager once __init__ returned
Constructed == lastOp.op # "start" /\ lastOp.res # "ParserError"

AddToFile ==
    Constructed /\ AddOver(FewRegArgs, OneNameArg, OneFeedbackArg, {StrV(<<"1", "0">>)})

DeleteFromFile == Constructed /\ DeleteOver(FewRegArgs, {})

SearchFile == Constructed /\ SearchOver(FewRegArgs, {})

DisplayAll == Constructed /\ display_all

SentimentSummary == Constructed /\ get_sentiment_summary

RatingChart == Constructed /\ display_rating_chart

NextFiles ==
    \/ load_data
    \/ AddToFile
    \/ DeleteFromFile
    \/ SearchFile
    \/ DisplayAll
    \/ SentimentSummary
    \/ RatingChart

SpecFiles == InitFiles /\ [][NextFiles]_vars

(***************************************************************************)
(* SpecPhrases: extract_key_phrases on its own, over texts built of up to  *)
(* MaxSentences sentences.  A sentence is n of the words a, b, c, d with   *)
(* one blank between them and pad blanks on either side.                   *)
(***************************************************************************)
MaxSentences == 4

Words == <<"a", "b", "c", "d">>

Sentences == [n : {0, 2, 3, 4}, pad : {0, 1}]

\* the words of a sentence, one blank between them
SentenceWords(p) == Join([i \in 1..p.n |-> <<Words[i]>>], <<" ">>)

SentenceText(p) ==
    [i \in 1..p.pad |-> " "] \o SentenceWords(p) \o [i \in 1..p.pad |-> " "]

\* the text of the sentences with a period between them
TextOf(sentences) ==
    Join([i \in 1..Len(sentences) |-> SentenceText(sentences[i])], <<".">>)

InitPhrases ==
    /\ df = <<>>
    /\ file = [kind |-> "absent", rows |-> <<>>]
    /\ lastOp = Call("init", None, None, None, "None", "")
    /\ shown = <<>>
    /\ report = NoReport
    /\ \E n \in 1..MaxSentences : \E sentences \in [1..n -> Sentences] :
          arg = [sentences |-> sentences, text |-> TextOf(sentences)]

\* self.extract_key_phrases(text)
ExtractKeyPhrases ==
    /\ lastOp.op = "init"
    /\ lastOp' = Call("extract_key_phrases", None, None, None, "None", "")
    /\ report' = [kind |-> "key_phrases", key_phrases |-> extract_key_phrases(arg.text)]
    /\ UNCHANGED <<df, file, shown, arg>>

NextPhrases == ExtractKeyPhrases

SpecPhrases == InitPhrases /\ [][NextPhrases]_vars

(***************************************************************************)
(* SpecScores: add over texts of polarities on and around the thresholds   *)
(* of the labels and the ties of round, in thousandths.                    *)
(***************************************************************************)
ScoreArgs ==
    {0 - 1000, 0 - 105, 0 - 104, 0 - 101, 0 - 100, 0 - 96, 0 - 95, 0,
     95, 96, 100, 101, 104, 105, 1000}

AddScored ==
    \E reg_no \in FewRegArgs, name \in OneNameArg, course \in CourseArgs,
       feedback \in OneFeedbackArg, score \in ScoreArgs, now \in Timestamps :
        add_feedback(reg_no, name, course, feedback, StrV(<<"1", "0">>),
                     score, TextBlobSentiment(feedback.s).subjectivity, now)

DeleteScored == DeleteOver(FewRegArgs, {})

NextScores ==
    \/ AddScored
    \/ DeleteScored

SpecScores == Init /\ [][NextScores]_vars

(***************************************************************************)
(* SpecSentiment: analyze_sentiment on its own, over every polarity and    *)
(* two subjectivities TextBlob can score a text with, in thousandths.  The *)
(* text stands for any text that TextBlob scores so.                       *)
(***************************************************************************)
\* TextBlob's polarity is in [-1.0, 1.0]
Polarities == (0 - 1000)..1000

Subjectivities == {0, 667}

InitSentiment ==
    /\ df = <<>>
    /\ file = [kind |-> "absent", rows |-> <<>>]
    /\ lastOp = Call("init", None, None, None, "None", "")
    /\ shown = <<>>
    /\ report = NoReport
    /\ \E feedback \in FeedbackArgs, polarity \in Polarities, subjectivity \in Subjectivities :
          arg = [text |-> feedback.s, polarity |-> polarity, subjectivity |-> subjectivity]

\* self.analyze_sentiment(text)
AnalyzeSentiment ==
    /\ lastOp.op = "init"
    /\ lastOp' = Call("analyze_sentiment", None, None, None, "None", "")
    /\ \E analysis \in analyze_sentiment(arg.text, arg.polarity, arg.subjectivity) :
          report' = Analysis(analysis)
    /\ UNCHANGED <<df, file, shown, arg>>

NextSentiment == AnalyzeSentiment

SpecSentiment == InitSentiment /\ [][NextSentiment]_vars

(***************************************************************************)
(* Properties.                                                             *)
(***************************************************************************)
\* the frame has a row with this registration number
HasReg(frame, s) == \E i \in 1..Len(frame) : frame[i].Registration_No.s = s

\* the number of rows of the frame equal to row
Count(frame, row) == Cardinality({i \in 1..Len(frame) : frame[i] = row})

\* a selector that was passed: a non-empty text
Given(v) == v.t = "str" /\ v.s # <<>>

\* C1: an add with a registration number that the collection holds, or that
\* the call just before added, returns failure and leaves the size of the
\* collection as it was, whatever its other arguments.
C1_SecondAddRejected ==
    [][(/\ lastOp'.op = "add"
        /\ \/ HasReg(df, lastOp'.reg.s)
           \/ lastOp.op = "add" /\ lastOp.res = "True" /\ lastOp.reg = lastOp'.reg)
       => (lastOp'.res = "False" /\ Len(df') = Len(df))]_vars

C1_Witness ==
    /\ lastOp.op = "add"
    /\ lastOp.res = "False"
    /\ lastOp.msg = "exists"
    /\ lastOp.rating = StrV(<<"1", "0">>)
    /\ HasReg(df, lastOp.reg.s)

\* C2: in every state between operations (after add, delete, load, whether
\* they succeeded or not) the collection is sorted by registration number
\* in the order of strings.
C2_Sorted ==
    \A i \in 1..(Len(df) - 1) :
        \/ df[i].Registration_No.s = df[i + 1].Registration_No.s
        \/ StrLess(df[i].Registration_No.s, df[i + 1].Registration_No.s)

\* "10" was added after "2" and stands before it
C2_Witness ==
    /\ Len(df) = 2
    /\ df[1].Registration_No.s = <<"1", "0">>
    /\ df[2].Registration_No.s = <<"2">>
    /\ lastOp.op = "add"
    /\ lastOp.res = "True"
    /\ lastOp.reg.s = <<"1", "0">>

\* two cells hold the same value
SameCell(a, b) == PyEq(a, b) \/ (a.t = "nan" /\ b.t = "nan")

SameCollection(d, e) ==
    /\ Len(d) = Len(e)
    /\ \A i \in 1..Len(d) : \A c \in ColumnSet : SameCell(d[i][c], e[i][c])

\* C3: saving the collection and loading it back gives the same records
\* with the same field values.
C3_RoundTrip ==
    \A d \in sort_values(LoadedFrame(to_csv(df))) : SameCollection(d, df)

\* C4: a search by the registration number of the add that just succeeded
\* shows exactly the record that add built.
C4_AddThenSearch ==
    [][(/\ lastOp.op = "add"
        /\ lastOp.res = "True"
        /\ lastOp'.op = "search"
        /\ lastOp'.reg = lastOp.reg
        /\ lastOp'.name = None)
       => shown' = shown]_vars

\* the rating is the text of an integer from 1 to 10 (blanks around it and
\* a plus sign allowed)
DenotesRating(v) ==
    /\ v.t = "str"
    /\ \E k \in 1..10 : Strip(v.s) \in {NatStr(k), <<"+">> \o NatStr(k)}

\* C5: for a registration number the collection does not hold, add accepts
\* the rating exactly when it is the text of an integer from 1 to 10, and
\* returns failure for every other text.
C5_RatingAccepted ==
    [][(lastOp'.op = "add" /\ ~HasReg(df, lastOp'.reg.s))
       => /\ lastOp'.res = "True" <=> DenotesRating(lastOp'.rating)
          /\ (lastOp'.rating.t = "str" /\ ~DenotesRating(lastOp'.rating))
                => lastOp'.res = "False"]_vars

\* "10" was accepted and is the rating of the new record
C5_Witness ==
    /\ lastOp.op = "add"
    /\ lastOp.rating = StrV(<<"1", "0">>)
    /\ lastOp.res = "True"
    /\ \E i \in 1..Len(df) :
          df[i].Registration_No = lastOp.reg /\ df[i].Rating = IntV(10)

\* C6: an add that returns failure leaves the collection and the file as
\* they were.
C6_RejectedAddNoMutation ==
    [][(lastOp'.op = "add" /\ lastOp'.res = "False") => (df' = df /\ file' = file)]_vars

\* a rating out of range was rejected while the file is not what a save of
\* the collection would write
C6_Witness ==
    /\ lastOp.op = "add"
    /\ lastOp.res = "False"
    /\ lastOp.msg = "range"
    /\ df # <<>>
    /\ file # to_csv(df)

\* C7: add returns True or False for every argument combination; it never
\* raises.
C7_AddNeverRaises == lastOp.op = "add" => lastOp.res \in {"True", "False"}

\* C8: no two records of the collection have the same registration number.
C8_UniqueRegs ==
    \A i, j \in 1..Len(df) :
        df[i].Registration_No.s = df[j].Registration_No.s => i = j

\* two texts equal when case is ignored
SameIgnoringCase(a, b) ==
    /\ Len(a) = Len(b)
    /\ \A i \in 1..Len(a) :
          \/ a[i] = b[i]
          \/ {a[i], b[i]} \in {{"a", "A"}, {"b", "B"}}

\* the records a delete with these selectors is to remove
Selected(row, reg_no, name) ==
    IF Given(reg_no) THEN row.Registration_No.s = reg_no.s
    ELSE Given(name) /\ SameIgnoringCase(row.Student_Name.s, name.s)

\* C9: a delete removes every record its selector matches (by registration
\* number: equal text; by name: equal ignoring case, possibly several) and
\* leaves every other record as it was, and returns success exactly when a
\* record was removed.
C9_DeleteExactlyMatching ==
    [][lastOp'.op = "delete"
       => /\ \A i \in 1..Len(df) :
                Count(df', df[i]) =
                    IF Selected(df[i], lastOp'.reg, lastOp'.name) THEN 0
                    ELSE Count(df, df[i])
          /\ \A i \in 1..Len(df') : Count(df, df'[i]) > 0
          /\ lastOp'.res = "True" <=> Len(df') < Len(df)]_vars

\* a delete by name removed a record and left the record of another name
C9_Witness ==
    /\ lastOp.op = "delete"
    /\ lastOp.name = StrV(<<"A">>)
    /\ lastOp.res = "True"
    /\ Len(df) = 1
    /\ df[1].Student_Name = StrV(<<"b">>)
    /\ file = to_csv(df)

\* C10: a delete changes the file only if it removed a row; one that finds
\* no match leaves the file and the collection as they were.
C10_DeletePersistsOnlyIfRemoved ==
    [][lastOp'.op = "delete"
       => /\ file' # file => Len(df') < Len(df)
          /\ lastOp'.msg = "not_found" => (df' = df /\ file' = file)]_vars

\* a delete found no match while the file is not what a save would write
C10_Witness ==
    /\ lastOp.op = "delete"
    /\ lastOp.msg = "not_found"
    /\ lastOp.res = "False"
    /\ df # <<>>
    /\ file # to_csv(df)

\* C11 as stated: in every state of the store, empty or not, delete_feedback
\* called with neither selector prints the guidance to provide one, returns
\* False and changes neither the collection nor the file.
C11_NoSelectorGuidance ==
    [][(lastOp'.op = "delete" /\ lastOp'.reg = None /\ lastOp'.name = None)
          => /\ lastOp'.msg = "provide"
             /\ lastOp'.res = "False"
             /\ df' = df
             /\ file' = file]_vars

\* C11 amended: delete_feedback called with neither selector returns False
\* and changes neither the collection nor the file in every state; it prints
\* the guidance when the collection holds a record, and that there are no
\* entries when the collection is empty.
C11_NoSelectorRejected ==
    [][(lastOp'.op = "delete" /\ lastOp'.reg = None /\ lastOp'.name = None)
          => /\ lastOp'.msg = (IF df = <<>> THEN "empty" ELSE "provide")
             /\ lastOp'.res = "False"
             /\ df' = df
             /\ file' = file]_vars

\* a delete with neither selector on a collection that holds a record, whose
\* file differs from what a save would write
C11_Witness ==
    /\ lastOp.op = "delete" /\ lastOp.reg = None /\ lastOp.name = None
    /\ lastOp.msg = "provide"
    /\ df # <<>>
    /\ file # to_csv(df)

\* C12: load_data never fails: on no file, a file of no bytes, a file of the
\* header alone and a file that is no table, it completes and leaves an
\* empty collection.
C12_LoadNeverFails ==
    (/\ lastOp.op = "load"
     /\ \/ file.kind \in {"absent", "empty", "corrupt"}
        \/ file.rows = <<>>)
        => (lastOp.res = "None" /\ df = <<>>)

\* the calls that are to read only
ReadOps == {"search", "display_all", "get_sentiment_summary", "display_rating_chart"}

\* C13: search_feedback, display_all, get_sentiment_summary and
\* display_rating_chart leave every record and every field value as it was,
\* a rating or score that is no number too: a save after them writes every
\* field as a save before them would.
C13_ReadsChangeNothing ==
    [][(lastOp'.op \in ReadOps) => to_csv(df') = to_csv(df)]_vars

\* the bucket of a whole rating from 1 to 10
BucketOf(n) ==
    IF n >= 9 THEN "Excellent (9-10)"
    ELSE IF n >= 7 THEN "Very Good (7-8)"
    ELSE IF n >= 5 THEN "Good (5-6)"
    ELSE IF n >= 3 THEN "Fair (3-4)"
    ELSE "Poor (1-2)"

BucketNames == {BucketOf(n) : n \in 1..10}

\* the rows of the frame with a numeric rating, and those of them whose
\* rating is a whole number from 1 to 10
ValidRows(frame) == {i \in 1..Len(frame) : IsNum(frame[i].Rating)}

WholeRows(frame) ==
    {i \in ValidRows(frame) : Hundredths(frame[i].Rating) \in {100 * n : n \in 1..10}}

\* the count the chart shows for a bucket: 0 for a bucket it leaves out
Shown(counts, b) == IF b \in DOMAIN counts THEN counts[b] ELSE 0

RECURSIVE SumOver(_, _)
SumOver(counts, names) ==
    IF names = {} THEN 0
    ELSE LET b == CHOOSE x \in names : TRUE
         IN Shown(counts, b) + SumOver(counts, names \ {b})

\* a chart was just drawn, by either report
ChartDrawn ==
    /\ lastOp.op \in {"display_rating_chart", "get_sentiment_summary"}
    /\ lastOp.msg = "chart"

TheChart == IF report.kind = "summary" THEN report.chart ELSE report

C15_FirstThreeLongSentences ==
    lastOp.op = "extract_key_phrases" =>
        LET long == SelectSeq(arg.sentences, LAMBDA p : p.n >= 3)
        IN /\ Len(report.key_phrases) = (IF Len(long) < 3 THEN Len(long) ELSE 3)
           /\ \A i \in 1..Len(report.key_phrases) :
                 report.key_phrases[i] = SentenceWords(long[i])

\* a text with four sentences of at least 3 words that differ, with blanks
\* around the first, after extract_key_phrases returned three phrases
C15_Witness ==
    /\ lastOp.op = "extract_key_phrases"
    /\ Len(arg.sentences) = 4
    /\ \A i \in 1..4 : arg.sentences[i].n >= 3
    /\ arg.sentences[1].pad = 1
    /\ arg.sentences[1].n # arg.sentences[4].n
    /\ Len(report.key_phrases) = 3

\* C16: the label analyze_sentiment gives is decided by the polarity alone:
\* Positive above 0.1, Negative below -0.1, Neutral otherwise, so Neutral at
\* exactly 0.1 and at exactly -0.1 (polarity in thousandths).
C16_LabelByPolarity ==
    lastOp.op = "analyze_sentiment" =>
        /\ arg.polarity > 100 => report.analysis.sentiment = <<"P", "o", "s", "i", "t", "i", "v", "e">>
        /\ arg.polarity < -100 => report.analysis.sentiment = <<"N", "e", "g", "a", "t", "i", "v", "e">>
        /\ (arg.polarity >= -100 /\ arg.polarity <= 100)
              => report.analysis.sentiment = <<"N", "e", "u", "t", "r", "a", "l">>

\* a text of polarity exactly 0.1 analysed as Neutral
C16_Witness ==
    /\ lastOp.op = "analyze_sentiment"
    /\ arg.polarity = 100
    /\ report.analysis.sentiment = <<"N", "e", "u", "t", "r", "a", "l">>

\* C17: add_feedback checks the duplicate first, then the rating, then
\* analyses the text, then inserts, sorts and saves: a call with a
\* registration number the collection holds and a rating that is no integer
\* from 1 to 10 is reported as "already exists"; analyze_sentiment has run
\* only in a call that passed both checks; and the record inserted holds
\* the result of the analysis and is in the file saved.
C17_AddOrder ==
    [][(lastOp'.op = "add")
          => /\ (HasReg(df, lastOp'.reg.s) /\ ~DenotesRating(lastOp'.rating))
                   => (lastOp'.res = "False" /\ lastOp'.msg = "exists")
             /\ report'.kind = "analysis"
                   => (~HasReg(df, lastOp'.reg.s) /\ DenotesRating(lastOp'.rating))
             /\ lastOp'.res = "True"
                   => /\ report'.kind = "analysis"
                      /\ shown'[1].Sentiment.s = report'.analysis.sentiment
                      /\ shown'[1].Sentiment_Score.n = report'.analysis.score
                      /\ Count(df', shown'[1]) = 1
                      /\ file' = to_csv(df')]_vars

\* an add with a registration number the collection holds and the rating
\* "a" or "0" was reported as "already exists", with no analysis run
C17_Witness ==
    /\ lastOp.op = "add"
    /\ lastOp.msg = "exists"
    /\ lastOp.rating \in {StrV(<<"a">>), StrV(<<"0">>)}
    /\ HasReg(df, lastOp.reg.s)
    /\ report = NoReport

\* C18: in every state between the operations issued after the load, the
\* file, when there is one, holds exactly the records and field values of
\* the collection: a restart, which loads the file, has the records of the
\* collection with the field values a save of the collection would write.
C18_FileMatchesMemory ==
    (Constructed /\ file.kind \in {"table", "empty"})
        => \A d \in sort_values(LoadedFrame(file)) : to_csv(d) = to_csv(df)

\* C19: a successful add followed by a delete by the same registration
\* number succeeds and gives back the collection of before the add (the
\* collection without the record added), for every registration number add
\* accepts, the empty one too.
C19_AddThenDelete ==
    [][(/\ lastOp.op = "add"
        /\ lastOp.res = "True"
        /\ lastOp'.op = "delete"
        /\ lastOp'.reg = lastOp.reg
        /\ lastOp'.name = None)
       => /\ lastOp'.res = "True"
          /\ df' = SelectSeq(df, LAMBDA row : row # shown[1])
          /\ Len(df') = Len(df) - 1]_vars

\* the labels
Positive == <<"P", "o", "s", "i", "t", "i", "v", "e">>

Negative == <<"N", "e", "g", "a", "t", "i", "v", "e">>

Neutral == <<"N", "e", "u", "t", "r", "a", "l">>

\* C20 as stated: the record add built has a label that agrees with the
\* score stored in it, rounded to 2 decimals (hundredths here): Positive if
\* and only if the stored score is above 0.1, Negative if and only if it is
\* below -0.1, Neutral otherwise.
C20_LabelAgreesWithStoredScore ==
    [][(lastOp'.op = "add" /\ lastOp'.res = "True")
          => LET label == shown'[1].Sentiment.s
                 stored == shown'[1].Sentiment_Score.n
             IN /\ label = Positive <=> stored > 10
                /\ label = Negative <=> stored < -10
                /\ label = Neutral <=> (stored >= -10 /\ stored <= 10)]_vars

\* C20 amended: the label is decided by the polarity before rounding, so it
\* agrees with the stored score everywhere but at a stored score of exactly
\* 0.1 or -0.1: a stored score above 0.1 has Positive, below -0.1 Negative,
\* strictly between -0.1 and 0.1 Neutral; a stored 0.1 has Positive or
\* Neutral and a stored -0.1 has Negative or Neutral.
C20_LabelAgreesOffThresholds ==
    [][(lastOp'.op = "add" /\ lastOp'.res = "True")
          => LET label == shown'[1].Sentiment.s
                 stored == shown'[1].Sentiment_Score.n
             IN /\ stored > 10 => label = Positive
                /\ stored < -10 => label = Negative
                /\ (stored > -10 /\ stored < 10) => label = Neutral
                /\ stored = 10 => label \in {Positive, Neutral}
                /\ stored = -10 => label \in {Negative, Neutral}]_vars

\* a record stored with the score 0.1 and the label Positive, and one with
\* the score 0.1 and the label Neutral
C20_Witness ==
    /\ lastOp.op = "add"
    /\ lastOp.res = "True"
    /\ shown[1].Sentiment_Score.n = 10
    /\ shown[1].Sentiment.s = Positive
    /\ \E i \in 1..Len(df) :
          df[i].Sentiment_Score.n = 10 /\ df[i].Sentiment.s = Neutral

====
